---------------------------- MODULE Spec2Model ----------------------------
(***************************************************************************)
(* A model of FSCommander (src/fscommand): the directory synchroniser of   *)
(* dir_ops.py, the file operations of file_ops.py, the size-filter parser  *)
(* of search.py and the directory listing of dir_ops.py.                   *)
(*                                                                         *)
(* The file system is a finite map from paths to entries.  A path is a     *)
(* sequence of names; the empty path is the working directory, which       *)
(* always exists and is a directory.                                        *)
(***************************************************************************)
EXTENDS Integers, Sequences, FiniteSets, TLC

VARIABLES
    fs,     \* the file system: path -> entry
    last,   \* the most recent call: arguments, file system before, outcome
    prev,   \* the call before `last`
    size_in,    \* the pieces of the size spec given to _parse_size_filter
    filter,     \* what _parse_size_filter returned or raised
    matched,    \* the last _matches_size call: file size and answer
    dir_in,     \* the directory given to list_directory, as iterdir yields it
    listed,     \* the last list_directory call: flags and returned list
    search_in,  \* the root given to search_text, as rglob walks it
    found,      \* the last search_text call: arguments, returned matches, exception
    find_in,    \* the root given to find, as rglob walks it
    find_out    \* the last find call: arguments, returned entries, exception

vars == <<fs, last, prev, size_in, filter, matched, dir_in, listed, search_in, found, find_in, find_out>>

(***************************************************************************)
(* Bounds of the model.                                                    *)
(***************************************************************************)
MaxContent == 2     \* a plain file holds one of the contents 1..MaxContent
MaxEntries == 3     \* a listed directory holds up to MaxEntries entries
MaxNumLen == 3      \* the numeral of a size spec: every string of up to
                    \* MaxNumLen characters of NumChars, and LongNumerals
MaxTextLen == 3     \* the text of a searched file: every string of up to
                    \* MaxTextLen characters of TextChars, and LongTexts

(***************************************************************************)
(* The file system.                                                        *)
(***************************************************************************)
SrcRoot == <<"S">>
DstRoot == <<"D">>

\* Paths relative to a synchronised root: a, b and a/f.
RelPaths == {<<"a">>, <<"b">>, <<"a", "f">>}

AbsPaths == {r \o p : r \in {SrcRoot, DstRoot}, p \in {<<>>} \cup RelPaths}

Absent == [kind |-> "none", data |-> 0]
Dir == [kind |-> "dir", data |-> 0]

Entries == {Absent, Dir} \cup [kind : {"file"}, data : 1..MaxContent]

Parent(p) == SubSeq(p, 1, Len(p) - 1)

\* os.stat on p: the entry at p, Absent when p lies outside the tree or below
\* something that is not a directory.
Stat(f, p) == IF p = <<>> THEN Dir ELSE IF p \in DOMAIN f THEN f[p] ELSE Absent

Exists(f, p) == Stat(f, p).kind # "none"
IsFile(f, p) == Stat(f, p).kind = "file"
IsDir(f, p) == Stat(f, p).kind = "dir"

\* Every entry that exists lies in a directory.
WellFormed(f) == \A p \in DOMAIN f : Exists(f, p) => IsDir(f, Parent(p))

FileSystems == {f \in [AbsPaths -> Entries] : WellFormed(f)}


(***************************************************************************)
(* shutil.copy2 and shutil.move, as file_ops.py calls them.  Each yields   *)
(* the file system afterwards and the exception raised ("none" when it     *)
(* returns).                                                               *)
(***************************************************************************)
Basename(p) == p[Len(p)]

\* q is p or lies below p.
IsPrefix(p, q) == Len(p) <= Len(q) /\ SubSeq(q, 1, Len(p)) = p

Done(f) == [fs |-> f, exc |-> "none"]
Raise(f, exc) == [fs |-> f, exc |-> exc]

\* Where copy2 and move put src when given dst: inside dst when dst is a
\* directory.
RealDst(f, src, dst) == IF IsDir(f, dst) THEN dst \o <<Basename(src)>> ELSE dst

\* A file name longer than the 255 bytes the file system allows, on which
\* os.stat raises OSError (ENAMETOOLONG), and one that holds a NUL character,
\* on which every system call raises ValueError.
LongName == "aaa...a (300 characters)"
NulName == "y\\0"

HasNul(p) == \E i \in 1..Len(p) : p[i] = NulName

\* The subclasses of OSError among the exceptions of the model; IOError is
\* OSError.
OSErrors ==
    {"OSError", "FileExistsError", "NotADirectoryError", "IsADirectoryError",
     "FileNotFoundError", "SameFileError", "Error"}

\* The error of a system call that looks the name of p up in its directory:
\* the first component that is missing or no directory decides, and the name
\* itself may be too long.
RECURSIVE LookupExc(_, _)
LookupExc(f, p) ==
    IF p = <<>> THEN "none"
    ELSE LET up == LookupExc(f, Parent(p))
         IN  IF up # "none" THEN up
             ELSE IF IsFile(f, Parent(p)) THEN "NotADirectoryError"
             ELSE IF ~IsDir(f, Parent(p)) THEN "FileNotFoundError"
             ELSE IF Basename(p) = LongName THEN "OSError"
             ELSE "none"

\* Path.exists(): the answer, and the exception raised.  It swallows
\* ValueError and the OSErrors that mean the path is not there, and lets
\* every other OSError through.
PathExists(f, p) ==
    IF HasNul(p) THEN [val |-> FALSE, exc |-> "none"]
    ELSE IF LookupExc(f, p) = "OSError" THEN [val |-> FALSE, exc |-> "OSError"]
    ELSE [val |-> Exists(f, p), exc |-> "none"]

\* shutil.copy2(src, dst), for a src that exists: copyfile compares the two
\* paths, opens src for reading and then the destination for writing.
shutil_copy2(f, src, dst) ==
    LET real == RealDst(f, src, dst)
    IN  IF HasNul(dst) THEN Raise(f, "ValueError")
        ELSE IF src = real THEN Raise(f, "SameFileError")
        ELSE IF IsDir(f, src) THEN Raise(f, "IsADirectoryError")
        ELSE IF LookupExc(f, real) # "none" THEN Raise(f, LookupExc(f, real))
        ELSE IF IsDir(f, real) THEN Raise(f, "IsADirectoryError")
        ELSE Done([f EXCEPT ![real] = f[src]])

\* os.mkdir(p).
os_mkdir(f, p) ==
    IF HasNul(p) THEN Raise(f, "ValueError")
    ELSE IF LookupExc(f, p) # "none" THEN Raise(f, LookupExc(f, p))
    ELSE IF Exists(f, p) THEN Raise(f, "FileExistsError")
    ELSE Done([f EXCEPT ![p] = Dir])

\* pathlib's Path.mkdir(parents, exist_ok): os.mkdir; when the parent is
\* missing and parents is set, the parents are made and os.mkdir is tried
\* again; any other OSError is let through unless exist_ok is set and the
\* path is a directory.
RECURSIVE mkdir(_, _, _, _)
mkdir(f, p, parents, exist_ok) ==
    LET made == os_mkdir(f, p)
        up == mkdir(f, Parent(p), TRUE, TRUE)
    IN  IF made.exc = "FileNotFoundError"
        THEN IF ~parents \/ Parent(p) = <<>> THEN made
             ELSE IF up.exc # "none" THEN up
             ELSE mkdir(up.fs, p, FALSE, exist_ok)
        ELSE IF made.exc \in OSErrors /\ exist_ok /\ IsDir(f, p) THEN Done(f)
        ELSE made

\* os.makedirs(p), as shutil.copytree calls it: the missing directories above
\* p are made first and stay when making p fails.
RECURSIVE os_makedirs(_, _)
os_makedirs(f, p) ==
    LET head == IF Parent(p) # <<>> /\ ~Exists(f, Parent(p))
                THEN os_makedirs(f, Parent(p))
                ELSE Done(f)
    IN  IF head.exc \notin {"none", "FileExistsError"} THEN head
        ELSE os_mkdir(head.fs, p)

\* The file system g once the entry src of f, with all below it, is at dst
\* and no longer at src.
Moved(f, g, src, dst) ==
    [p \in DOMAIN g |->
        IF IsPrefix(dst, p) THEN Stat(f, src \o SubSeq(p, Len(dst) + 1, Len(p)))
        ELSE IF IsPrefix(src, p) THEN Absent
        ELSE g[p]]

\* os.rename(src, dst), for a src that exists: a file replaces a file, a
\* directory replaces an empty directory.  Onto a directory above src the
\* system answers ENOTEMPTY, a plain OSError, whatever src is.
os_rename(f, src, dst) ==
    IF HasNul(dst) THEN Raise(f, "ValueError")
    ELSE IF LookupExc(f, dst) # "none" THEN Raise(f, LookupExc(f, dst))
    ELSE IF src = dst THEN Done(f)
    ELSE IF IsFile(f, src)
    THEN IF IsDir(f, dst) /\ IsPrefix(dst, src) THEN Raise(f, "OSError")
         ELSE IF IsDir(f, dst) THEN Raise(f, "IsADirectoryError")
         ELSE Done(Moved(f, f, src, dst))
    ELSE IF IsPrefix(src, dst) THEN Raise(f, "OSError")
    ELSE IF IsFile(f, dst) THEN Raise(f, "NotADirectoryError")
    ELSE IF \E p \in DOMAIN f : Parent(p) = dst /\ Exists(f, p) THEN Raise(f, "OSError")
    ELSE Done(Moved(f, f, src, dst))

\* try: os.rename(src, real_dst), except OSError: the fallback of
\* shutil.move, for a src that exists.  A directory is not moved into itself,
\* and is otherwise copied with copytree and removed with rmtree; a file is
\* copied with copy2 and unlinked.
MoveTo(f, src, real) ==
    LET renamed == os_rename(f, src, real)
        made == os_makedirs(f, real)
        copied == shutil_copy2(f, src, real)
    IN  IF renamed.exc \notin OSErrors THEN renamed
        ELSE IF IsDir(f, src)
        THEN IF IsPrefix(src, real) THEN Raise(f, "Error")
             ELSE IF made.exc # "none" THEN made
             ELSE Done(Moved(f, made.fs, src, real))
        ELSE IF copied.exc # "none" THEN copied
        ELSE Done([copied.fs EXCEPT ![src] = Absent])

\* shutil.move(src, dst), for a src that exists.
shutil_move(f, src, dst) ==
    IF IsDir(f, dst)
    THEN IF src = dst THEN Done(f)
         ELSE IF Exists(f, RealDst(f, src, dst)) THEN Raise(f, "Error")
         ELSE MoveTo(f, src, RealDst(f, src, dst))
    ELSE MoveTo(f, src, dst)

(***************************************************************************)
(* file_ops: copy_file, move_file, remove and rename.                       *)
(***************************************************************************)

Returns(f, ret) == [fs |-> f, ret |-> ret, exc |-> "none"]
Raises(f, exc) == [fs |-> f, ret |-> FALSE, exc |-> exc]

\* except (OSError, IOError): return False
Except(r) == IF r.exc \in OSErrors THEN Returns(r.fs, FALSE) ELSE Raises(r.fs, r.exc)

\* try: dst.parent.mkdir(parents=True, exist_ok=True); shutil.copy2(src, dst)
TryCopy(f, src, dst) ==
    LET made == mkdir(f, Parent(dst), TRUE, TRUE)
    IN  IF made.exc # "none" THEN Except(made)
        ELSE LET cp == shutil_copy2(made.fs, src, dst)
             IN  IF cp.exc # "none" THEN Except(cp) ELSE Returns(cp.fs, TRUE)

\* try: dst.parent.mkdir(parents=True, exist_ok=True); shutil.move(src, dst)
TryMove(f, src, dst) ==
    LET made == mkdir(f, Parent(dst), TRUE, TRUE)
    IN  IF made.exc # "none" THEN Except(made)
        ELSE LET mv == shutil_move(made.fs, src, dst)
             IN  IF mv.exc # "none" THEN Except(mv) ELSE Returns(mv.fs, TRUE)

\* copy_file(source, dest, overwrite); the two tests on exists() come before
\* the try.
copy_file(f, source, dest, overwrite) ==
    LET src_exists == PathExists(f, source)
        dst_exists == PathExists(f, dest)
    IN  IF src_exists.exc # "none" THEN Raises(f, src_exists.exc)
        ELSE IF ~src_exists.val THEN Returns(f, FALSE)
        ELSE IF dst_exists.exc # "none" THEN Raises(f, dst_exists.exc)
        ELSE IF dst_exists.val /\ ~overwrite THEN Returns(f, FALSE)
        ELSE TryCopy(f, source, dest)

\* move_file(source, dest, overwrite); the two tests on exists() come before
\* the try.
move_file(f, source, dest, overwrite) ==
    LET src_exists == PathExists(f, source)
        dst_exists == PathExists(f, dest)
    IN  IF src_exists.exc # "none" THEN Raises(f, src_exists.exc)
        ELSE IF ~src_exists.val THEN Returns(f, FALSE)
        ELSE IF dst_exists.exc # "none" THEN Raises(f, dst_exists.exc)
        ELSE IF dst_exists.val /\ ~overwrite THEN Returns(f, FALSE)
        ELSE TryMove(f, source, dest)

\* remove(path, recursive, force): a path that is not there gives force; a
\* directory goes with all below it when recursive is set and must be empty
\* otherwise; the test on exists() comes before the try.
remove(f, path, recursive, force) ==
    LET p_exists == PathExists(f, path)
    IN  IF p_exists.exc # "none" THEN Raises(f, p_exists.exc)
        ELSE IF ~p_exists.val THEN Returns(f, force)
        ELSE IF IsDir(f, path) /\ recursive
        THEN Returns([p \in DOMAIN f |-> IF IsPrefix(path, p) THEN Absent ELSE f[p]], TRUE)
        ELSE IF IsDir(f, path) /\ \E p \in DOMAIN f : Parent(p) = path /\ Exists(f, p)
        THEN Except(Raise(f, "OSError"))
        ELSE Returns([f EXCEPT ![path] = Absent], TRUE)

\* rename(path, new_name): the entry moves to new_name in its directory; the
\* test on exists() comes before the try.
rename(f, path, new_name) ==
    LET src_exists == PathExists(f, path)
        renamed == os_rename(f, path, Parent(path) \o <<new_name>>)
    IN  IF src_exists.exc # "none" THEN Raises(f, src_exists.exc)
        ELSE IF ~src_exists.val THEN Returns(f, FALSE)
        ELSE IF renamed.exc # "none" THEN Except(renamed)
        ELSE Returns(renamed.fs, TRUE)

(***************************************************************************)
(* dir_ops.create_directory.                                               *)
(***************************************************************************)

\* create_directory(path, parents): p.mkdir(parents=parents,
\* exist_ok=parents) in a try.
create_directory(f, path, parents) ==
    LET made == mkdir(f, path, parents, parents)
    IN  IF made.exc # "none" THEN Except(made) ELSE Returns(made.fs, TRUE)

(***************************************************************************)
(* dir_ops.sync.                                                           *)
(***************************************************************************)

\* dir_ops.py imports os, pathlib, datetime, typing and rich.tree: the name
\* shutil is not bound in the module, so evaluating shutil.copy2 raises
\* NameError.
ShutilImported == FALSE

ZeroResult == [copied |-> 0, skipped |-> 0, deleted |-> 0]

\* The orders in which a recursive walk can yield the paths of a tree.
WalkOrders ==
    {o \in [1..Cardinality(RelPaths) -> RelPaths] :
        \A i, j \in 1..Cardinality(RelPaths) : i # j => o[i] # o[j]}

\* root.rglob("*") filtered by is_file(): the plain files under root, as
\* relative paths, in the order of the walk.
RglobFiles(f, root, order) ==
    LET isFile(rel) == IsFile(f, root \o rel)
    IN  SelectSeq(order, isFile)

\* shutil.copy2(src_file, dst_file), reached only for a dst_file that does not
\* exist.
Copy2(f, src_file, dst_file) ==
    IF ShutilImported THEN shutil_copy2(f, src_file, dst_file)
    ELSE Raise(f, "NameError")

\* SyncCopyStep without the test of dst_file.exists(): every source file goes
\* to the copy branch.
SyncCopyStepNoSkip(st, source, dest, rel, dry_run) ==
    LET src_file == source \o rel
        dst_file == dest \o rel
        made == mkdir(st.fs, Parent(dst_file), TRUE, TRUE)
    IN  IF made.exc # "none"
        THEN [st EXCEPT !.fs = made.fs, !.exc = made.exc]
        ELSE IF dry_run
        THEN [st EXCEPT !.fs = made.fs, !.result.copied = @ + 1]
        ELSE LET cp == Copy2(made.fs, src_file, dst_file)
             IN  IF cp.exc # "none"
                 THEN [st EXCEPT !.fs = cp.fs, !.exc = cp.exc]
                 ELSE [st EXCEPT !.fs = cp.fs, !.result.copied = @ + 1]

\* One iteration of the copy loop, for the source file at rel.
SyncCopyStep(st, source, dest, rel, dry_run) ==
    LET src_file == source \o rel
        dst_file == dest \o rel
        made == mkdir(st.fs, Parent(dst_file), TRUE, TRUE)
    IN  IF made.exc # "none"
        THEN [st EXCEPT !.fs = made.fs, !.exc = made.exc]
        ELSE IF Exists(made.fs, dst_file)
        THEN [st EXCEPT !.fs = made.fs, !.result.skipped = @ + 1]
        ELSE IF dry_run
        THEN [st EXCEPT !.fs = made.fs, !.result.copied = @ + 1]
        ELSE LET cp == Copy2(made.fs, src_file, dst_file)
             IN  IF cp.exc # "none"
                 THEN [st EXCEPT !.fs = cp.fs, !.exc = cp.exc]
                 ELSE [st EXCEPT !.fs = cp.fs, !.result.copied = @ + 1]

RECURSIVE SyncCopyLoop(_, _, _, _, _)
SyncCopyLoop(st, source, dest, files, dry_run) ==
    IF files = <<>> \/ st.exc # "none" THEN st
    ELSE SyncCopyLoop(SyncCopyStep(st, source, dest, Head(files), dry_run),
                      source, dest, Tail(files), dry_run)

\* One iteration of the delete loop, for the destination file at rel.
SyncDeleteStep(st, source, dest, rel, dry_run) ==
    LET dst_file == dest \o rel
        src_file == source \o rel
    IN  IF ~IsFile(st.fs, dst_file) \/ Exists(st.fs, src_file) THEN st
        ELSE IF dry_run
        THEN [st EXCEPT !.result.deleted = @ + 1]
        ELSE [st EXCEPT !.fs = [st.fs EXCEPT ![dst_file] = Absent],
                        !.result.deleted = @ + 1]

RECURSIVE SyncDeleteLoop(_, _, _, _, _)
SyncDeleteLoop(st, source, dest, files, dry_run) ==
    IF files = <<>> \/ st.exc # "none" THEN st
    ELSE SyncDeleteLoop(SyncDeleteStep(st, source, dest, Head(files), dry_run),
                        source, dest, Tail(files), dry_run)

\* sync(source, dest, delete, dry_run) on the file system f, the walks
\* yielding paths in `order`: the file system afterwards, the result
\* dictionary (returned only when exc = "none") and the exception raised.
Sync(f, source, dest, delete, dry_run, order) ==
    IF ~Exists(f, source) \/ ~IsDir(f, source)
    THEN [fs |-> f, result |-> ZeroResult, exc |-> "none"]
    ELSE LET made == mkdir(f, dest, TRUE, TRUE)
             st0 == [fs |-> made.fs, result |-> ZeroResult, exc |-> made.exc]
             st1 == SyncCopyLoop(st0, source, dest,
                                 RglobFiles(f, source, order), dry_run)
         IN  IF st1.exc # "none" \/ ~delete THEN st1
             ELSE SyncDeleteLoop(st1, source, dest,
                                 RglobFiles(st1.fs, dest, order), dry_run)

(***************************************************************************)
(* Strings and numbers for search._parse_size_filter.  A string is a       *)
(* sequence of one-character strings.  Byte counts exceed 32 bits (1 TB is *)
(* 2^40), so a natural number is the sequence of its decimal digits, most  *)
(* significant first and without leading zeros (zero is <<0>>), and an     *)
(* integer is a sign and a magnitude.                                      *)
(***************************************************************************)
DigitChars == <<"0", "1", "2", "3", "4", "5", "6", "7", "8", "9">>

IsDigit(c) == \E i \in 1..10 : DigitChars[i] = c
DigitVal(c) == (CHOOSE i \in 1..10 : DigitChars[i] = c) - 1

IsSpace(c) == c = " "

\* str.upper() on one character.
UpperChar(c) ==
    CASE c = "a" -> "A" [] c = "b" -> "B" [] c = "c" -> "C" [] c = "f" -> "F"
      [] c = "g" -> "G" [] c = "i" -> "I" [] c = "k" -> "K" [] c = "m" -> "M"
      [] c = "n" -> "N" [] c = "p" -> "P" [] c = "t" -> "T" [] c = "x" -> "X"
      [] OTHER -> c

\* str.upper()
Upper(s) == [i \in 1..Len(s) |-> UpperChar(s[i])]

\* str.strip()
RECURSIVE LStrip(_)
LStrip(s) == IF s # <<>> /\ IsSpace(Head(s)) THEN LStrip(Tail(s)) ELSE s

RECURSIVE RStrip(_)
RStrip(s) ==
    IF s # <<>> /\ IsSpace(s[Len(s)]) THEN RStrip(SubSeq(s, 1, Len(s) - 1)) ELSE s

Strip(s) == RStrip(LStrip(s))

\* str.startswith, str.endswith
StartsWith(s, t) == Len(t) <= Len(s) /\ SubSeq(s, 1, Len(t)) = t
EndsWith(s, t) == Len(t) <= Len(s) /\ SubSeq(s, Len(s) - Len(t) + 1, Len(s)) = t

AllDigits(s) == \A i \in 1..Len(s) : IsDigit(s[i])

\* Natural numbers as digit sequences: d without its leading zeros.
Canon(d) ==
    IF \A i \in 1..Len(d) : d[i] = 0
    THEN (IF d = <<>> THEN <<>> ELSE <<0>>)
    ELSE LET first == CHOOSE i \in 1..Len(d) : d[i] # 0 /\ \A j \in 1..(i - 1) : d[j] = 0
         IN  SubSeq(d, first, Len(d))

NatZero == <<0>>

DigitsOf(s) == IF s = <<>> THEN NatZero ELSE Canon([i \in 1..Len(s) |-> DigitVal(s[i])])

\* a < b, for canonical a and b of one length: the first digit that differs
\* decides.
LexLess(a, b) ==
    \E i \in 1..Len(a) : a[i] < b[i] /\ \A j \in 1..(i - 1) : a[j] = b[j]

NatLess(a, b) == Len(a) < Len(b) \/ (Len(a) = Len(b) /\ LexLess(a, b))

\* 2 * d: a digit doubles and takes the carry of the digit after it, which is
\* one when that digit is five or more.
Double(d) ==
    Canon([i \in 1..(Len(d) + 1) |->
              (IF i = 1 THEN 0 ELSE (2 * d[i - 1]) % 10)
                  + (IF i <= Len(d) /\ d[i] >= 5 THEN 1 ELSE 0)])

\* d + 1: the nines at the end become zeros and the digit before them grows.
NatSucc(d) ==
    LET n == Len(d)
        last9 == {i \in 1..n : \A j \in i..n : d[j] = 9}
    IN  IF Cardinality(last9) = n THEN <<1>> \o [i \in 1..n |-> 0]
        ELSE Canon([i \in 1..n |-> IF i \in last9 THEN 0
                                   ELSE IF (i + 1) \in last9 \/ i = n THEN d[i] + 1
                                   ELSE d[i]])

\* floor(d / 2), by long division: the remainder carried into a digit is the
\* parity of the digit before it.
Halve(d) ==
    Canon([i \in 1..Len(d) |->
              ((IF i > 1 /\ d[i - 1] % 2 = 1 THEN 10 ELSE 0) + d[i]) \div 2])

IsOdd(d) == d[Len(d)] % 2 = 1

\* floor(d / 2^e)
RECURSIVE DivPow2(_, _)
DivPow2(d, e) == IF e = 0 THEN d ELSE DivPow2(Halve(d), e - 1)

\* d * 2^e
RECURSIVE MulPow2(_, _)
MulPow2(d, e) == IF e = 0 \/ d = NatZero THEN d ELSE MulPow2(Double(d), e - 1)

\* d * 1024^k
RECURSIVE MulPow1024(_, _)
MulPow1024(d, k) ==
    IF k = 0 \/ d = NatZero THEN d ELSE MulPow1024(MulPow2(d, 10), k - 1)

\* floor(d / 10^f): the last f digits dropped
DivPow10(d, f) == IF Len(d) <= f THEN NatZero ELSE SubSeq(d, 1, Len(d) - f)

\* 2^53: a double holds 53 significant bits.
TwoTo53 == <<9, 0, 0, 7, 1, 9, 9, 2, 5, 4, 7, 4, 0, 9, 9, 2>>

\* 2^1024, of 309 digits: a double of this magnitude or more is infinite.
TwoTo1024 ==
    << 1, 7, 9, 7, 6, 9, 3, 1, 3, 4, 8, 6, 2, 3, 1, 5, 9, 0, 7, 7, 2, 9, 3, 0,
       5, 1, 9, 0, 7, 8, 9, 0, 2, 4, 7, 3, 3, 6, 1, 7, 9, 7, 6, 9, 7, 8, 9, 4,
       2, 3, 0, 6, 5, 7, 2, 7, 3, 4, 3, 0, 0, 8, 1, 1, 5, 7, 7, 3, 2, 6, 7, 5,
       8, 0, 5, 5, 0, 0, 9, 6, 3, 1, 3, 2, 7, 0, 8, 4, 7, 7, 3, 2, 2, 4, 0, 7,
       5, 3, 6, 0, 2, 1, 1, 2, 0, 1, 1, 3, 8, 7, 9, 8, 7, 1, 3, 9, 3, 3, 5, 7,
       6, 5, 8, 7, 8, 9, 7, 6, 8, 8, 1, 4, 4, 1, 6, 6, 2, 2, 4, 9, 2, 8, 4, 7,
       4, 3, 0, 6, 3, 9, 4, 7, 4, 1, 2, 4, 3, 7, 7, 7, 6, 7, 8, 9, 3, 4, 2, 4,
       8, 6, 5, 4, 8, 5, 2, 7, 6, 3, 0, 2, 2, 1, 9, 6, 0, 1, 2, 4, 6, 0, 9, 4,
       1, 1, 9, 4, 5, 3, 0, 8, 2, 9, 5, 2, 0, 8, 5, 0, 0, 5, 7, 6, 8, 8, 3, 8,
       1, 5, 0, 6, 8, 2, 3, 4, 2, 4, 6, 2, 8, 8, 1, 4, 7, 3, 9, 1, 3, 1, 1, 0,
       5, 4, 0, 8, 2, 7, 2, 3, 7, 1, 6, 3, 3, 5, 0, 5, 1, 0, 6, 8, 4, 5, 8, 6,
       2, 9, 8, 2, 3, 9, 9, 4, 7, 2, 4, 5, 9, 3, 8, 4, 7, 9, 7, 1, 6, 3, 0, 4,
       8, 3, 5, 3, 5, 6, 3, 2, 9, 6, 2, 4, 2, 2, 4, 1, 3, 7, 2, 1, 6 >>

\* The double nearest to the natural number d (ties to even), as a natural
\* number: d is halved e times until 54 bits remain (d < 2^54), `sticky` telling
\* whether a one was shifted out, and the last bit decides the rounding.  A d
\* of 2^64 or more loses ten bits in one step.
RECURSIVE RoundShift(_, _, _)
RoundShift(d, e, sticky) ==
    IF NatLess(d, <<1, 8, 0, 1, 4, 3, 9, 8, 5, 0, 9, 4, 8, 1, 9, 8, 4>>)
    THEN LET mant == Halve(d)
             up == IsOdd(d) /\ (sticky \/ IsOdd(mant))
             rounded == IF up THEN NatSucc(mant) ELSE mant
         IN  MulPow1024(MulPow2(rounded, (e + 1) % 10), (e + 1) \div 10)
    ELSE IF NatLess(d, <<1, 8, 4, 4, 6, 7, 4, 4, 0, 7, 3, 7, 0, 9, 5, 5, 1, 6, 1, 6>>)
    THEN (IF sticky \/ IsOdd(d) THEN RoundShift(Halve(d), e + 1, TRUE)
          ELSE RoundShift(Halve(d), e + 1, FALSE))
    ELSE LET q == DivPow2(d, 10)
         IN  IF sticky \/ MulPow2(q, 10) # d THEN RoundShift(q, e + 10, TRUE)
             ELSE RoundShift(q, e + 10, FALSE)

\* float(n) for a natural number n
RoundToDouble(d) == IF NatLess(d, TwoTo53) THEN d ELSE RoundShift(d, 0, FALSE)

\* Integers: a sign and a magnitude; zero is never negative.
MkInt(neg, mag) == [neg |-> neg /\ mag # NatZero, mag |-> mag]
IntZero == MkInt(FALSE, NatZero)

\* a < b on integers
IntLess(a, b) ==
    IF a.neg /\ ~b.neg THEN TRUE
    ELSE IF ~a.neg /\ b.neg THEN FALSE
    ELSE IF a.neg THEN NatLess(b.mag, a.mag)
    ELSE NatLess(a.mag, b.mag)

(***************************************************************************)
(* float(s) and int(s) on strings.  The strings of the model hold no       *)
(* exponent and no underscore, so a float literal is an optional sign and  *)
(* digits with at most one point, or INF or NAN; surrounding white space   *)
(* is ignored.                                                             *)
(***************************************************************************)
Unsigned(t) ==
    IF t # <<>> /\ (Head(t) = "-" \/ Head(t) = "+") THEN Tail(t) ELSE t

\* The position of the first point in t, 0 when there is none.
PointAt(t) ==
    IF \E i \in 1..Len(t) : t[i] = "."
    THEN CHOOSE i \in 1..Len(t) : t[i] = "." /\ \A j \in 1..(i - 1) : t[j] # "."
    ELSE 0

\* float(s): ok is FALSE when float raises ValueError; otherwise kind is
\* "finite", "inf" or "nan", whole and frac are the digits before and after
\* the point.
ParseFloat(s) ==
    LET t == Strip(s)
        body == Upper(Unsigned(t))
        neg == t # <<>> /\ Head(t) = "-"
        dot == PointAt(body)
        whole == IF dot = 0 THEN body ELSE SubSeq(body, 1, dot - 1)
        frac == IF dot = 0 THEN <<>> ELSE SubSeq(body, dot + 1, Len(body))
        bad == [ok |-> FALSE, kind |-> "none", neg |-> FALSE, whole |-> <<>>, frac |-> <<>>]
    IN  IF body = <<"I", "N", "F">>
        THEN [ok |-> TRUE, kind |-> "inf", neg |-> neg, whole |-> <<>>, frac |-> <<>>]
        ELSE IF body = <<"N", "A", "N">>
        THEN [ok |-> TRUE, kind |-> "nan", neg |-> neg, whole |-> <<>>, frac |-> <<>>]
        ELSE IF AllDigits(whole) /\ AllDigits(frac) /\ Len(whole) + Len(frac) >= 1
        THEN [ok |-> TRUE, kind |-> "finite", neg |-> neg, whole |-> whole, frac |-> frac]
        ELSE bad

\* sys.get_int_max_str_digits(): the interpreter converts no numeral of more
\* digits than this to an integer (leading zeros count, sign and white space
\* do not).
MaxStrDigits == 4300

\* int(s): ok is FALSE when int raises ValueError, which it does for a
\* string that is no numeral and for a numeral of more than MaxStrDigits
\* digits.
ParseInt(s) ==
    LET t == Strip(s)
        body == Unsigned(t)
    IN  IF body # <<>> /\ AllDigits(body) /\ Len(body) <= MaxStrDigits
        THEN [ok |-> TRUE, value |-> MkInt(Head(t) = "-", DigitsOf(body))]
        ELSE [ok |-> FALSE, value |-> IntZero]

\* int(value * 1024^k) for the finite float value: the product truncated
\* towards zero.  A numeral without fraction digits is rounded to the nearest
\* double first; a numeral with fraction digits is kept exact (the numerals
\* of the model are short, and the nearest double of a short decimal has the
\* same integer part after scaling).  The product is finite when the result
\* is below 2^1024.
FloatTimesToInt(fl, k) ==
    LET digits == DigitsOf(fl.whole \o fl.frac)
    IN  IF fl.frac = <<>>
        THEN MkInt(fl.neg, MulPow1024(RoundToDouble(digits), k))
        ELSE MkInt(fl.neg, DivPow10(MulPow1024(digits, k), Len(fl.frac)))

(***************************************************************************)
(* search._parse_size_filter and search._matches_size.                     *)
(***************************************************************************)

\* The units dictionary, in insertion order; the multiplier is 1024^pow.
Units ==
    << [name |-> <<"B">>, pow |-> 0],
       [name |-> <<"K", "B">>, pow |-> 1],
       [name |-> <<"M", "B">>, pow |-> 2],
       [name |-> <<"G", "B">>, pow |-> 3],
       [name |-> <<"T", "B">>, pow |-> 4] >>

\* sorted(seq, key=lambda x: -len(x[0])): a stable sort, longest name first.
RECURSIVE InsertByLen(_, _)
InsertByLen(sorted, u) ==
    IF sorted = <<>> THEN <<u>>
    ELSE IF Len(Head(sorted).name) >= Len(u.name)
    THEN <<Head(sorted)>> \o InsertByLen(Tail(sorted), u)
    ELSE <<u>> \o sorted

RECURSIVE SortByLenDesc(_)
SortByLenDesc(seq) ==
    IF seq = <<>> THEN <<>>
    ELSE InsertByLen(SortByLenDesc(SubSeq(seq, 1, Len(seq) - 1)), seq[Len(seq)])

\* The units in dictionary order, without the sort.
UnitOrderUnsorted == Units

\* The order in which the loop tries the units.
UnitOrder == SortByLenDesc(Units)

Filter(op, threshold) == [exc |-> "none", op |-> op, threshold |-> threshold]
Raised(exc) == [exc |-> exc, op |-> <<>>, threshold |-> IntZero]

\* Lines 160-164 with the fallback returning the operator that was written.
ParseBytesKeepOp(op, val_str) ==
    LET n == ParseInt(val_str)
    IN  IF n.ok THEN Filter(op, n.value) ELSE Filter(op, IntZero)

\* "No unit, assume bytes": int(val_str), or the permissive default.
ParseBytes(op, val_str) ==
    LET n == ParseInt(val_str)
    IN  IF n.ok THEN Filter(op, n.value) ELSE Filter(<<">">>, IntZero)

\* The loop over the units: the first unit in `order` that val_str ends with
\* decides; a number that does not parse breaks out of the loop, and int() of
\* a product that is infinite (the number or the product is 2^1024 or more)
\* raises OverflowError.
RECURSIVE ParseUnits(_, _, _)
ParseUnits(op, val_str, order) ==
    IF order = <<>> THEN ParseBytes(op, val_str)
    ELSE LET unit == Head(order)
         IN  IF EndsWith(val_str, unit.name)
             THEN LET fl == ParseFloat(SubSeq(val_str, 1, Len(val_str) - Len(unit.name)))
                      product == FloatTimesToInt(fl, unit.pow)
                      inf == \/ fl.kind = "inf"
                             \/ ~NatLess(DigitsOf(fl.whole), TwoTo1024)
                             \/ ~NatLess(product.mag, TwoTo1024)
                  IN  IF ~fl.ok \/ fl.kind = "nan" THEN ParseBytes(op, val_str)
                      ELSE IF inf THEN Raised("OverflowError")
                      ELSE Filter(op, product)
             ELSE ParseUnits(op, val_str, Tail(order))

\* _parse_size_filter(size_str): the tuple returned, or the exception raised.
_parse_size_filter(size_str) ==
    LET s == Upper(Strip(size_str))
    IN  IF StartsWith(s, <<">", "=">>) THEN ParseUnits(<<">", "=">>, SubSeq(s, 3, Len(s)), UnitOrder)
        ELSE IF StartsWith(s, <<"<", "=">>) THEN ParseUnits(<<"<", "=">>, SubSeq(s, 3, Len(s)), UnitOrder)
        ELSE IF StartsWith(s, <<">">>) THEN ParseUnits(<<">">>, SubSeq(s, 2, Len(s)), UnitOrder)
        ELSE IF StartsWith(s, <<"<">>) THEN ParseUnits(<<"<">>, SubSeq(s, 2, Len(s)), UnitOrder)
        ELSE ParseUnits(<<">">>, s, UnitOrder)

\* _matches_size(file_size, (op, threshold))
_matches_size(file_size, op, threshold) ==
    IF op = <<">">> THEN IntLess(threshold, file_size)
    ELSE IF op = <<">", "=">> THEN ~IntLess(file_size, threshold)
    ELSE IF op = <<"<">> THEN IntLess(file_size, threshold)
    ELSE IF op = <<"<", "=">> THEN ~IntLess(threshold, file_size)
    ELSE FALSE

(***************************************************************************)
(* dir_ops.list_directory.  A directory is given as the sequence of its    *)
(* entries in the order iterdir yields them; an entry is a name and a      *)
(* kind: "file", "dir", or "broken" for a symbolic link to nothing, which  *)
(* is neither.                                                             *)
(***************************************************************************)

\* ord(c), for the characters of the names of the model
Ord(c) ==
    CASE c = "." -> 46 [] c = "A" -> 65 [] c = "B" -> 66 [] c = "_" -> 95
      [] c = "a" -> 97 [] c = "b" -> 98

\* str.lower() on one character.
LowerChar(c) == CASE c = "A" -> "a" [] c = "B" -> "b" [] OTHER -> c

\* str.lower()
Lower(s) == [i \in 1..Len(s) |-> LowerChar(s[i])]

\* s < t on strings: by code point, a proper prefix first.
RECURSIVE StrLess(_, _)
StrLess(s, t) ==
    IF t = <<>> THEN FALSE
    ELSE IF s = <<>> THEN TRUE
    ELSE IF Head(s) # Head(t) THEN Ord(Head(s)) < Ord(Head(t))
    ELSE StrLess(Tail(s), Tail(t))

\* The sort key compared on the names as they are, without lower().
EntryKeyLessCaseSensitive(x, y) ==
    LET xf == x.kind = "file"
        yf == y.kind = "file"
    IN  (~xf /\ yf) \/ (xf = yf /\ StrLess(x.name, y.name))

\* key(x) < key(y) for key = lambda x: (x.is_file(), x.name.lower())
EntryKeyLess(x, y) ==
    LET xf == x.kind = "file"
        yf == y.kind = "file"
    IN  (~xf /\ yf) \/ (xf = yf /\ StrLess(Lower(x.name), Lower(y.name)))

\* sorted(entries, key=...): a stable sort.
RECURSIVE InsertByKey(_, _)
InsertByKey(sorted, x) ==
    IF sorted = <<>> THEN <<x>>
    ELSE IF EntryKeyLess(x, Head(sorted)) THEN <<x>> \o sorted
    ELSE <<Head(sorted)>> \o InsertByKey(Tail(sorted), x)

RECURSIVE SortedByKey(_)
SortedByKey(entries) ==
    IF entries = <<>> THEN <<>>
    ELSE InsertByKey(SortedByKey(SubSeq(entries, 1, Len(entries) - 1)),
                     entries[Len(entries)])

IsHidden(name) == StartsWith(name, <<".">>)

\* The info dictionary of one entry.  In a detailed listing entry.stat()
\* fails on a broken link, which leaves size and modified at "-" and no type;
\* otherwise size and modified hold the formatted size and time, which the
\* model abstracts to "size" and "time".
EntryInfo(entry, detailed) ==
    IF ~detailed THEN [name |-> entry.name]
    ELSE IF entry.kind = "broken"
    THEN [name |-> entry.name, size |-> "-", modified |-> "-"]
    ELSE [name |-> entry.name, size |-> "size", modified |-> "time",
          type |-> IF entry.kind = "dir" THEN "dir" ELSE "file"]

\* list_directory(path, show_hidden, detailed), for a path whose kind is
\* d.kind ("none", "file" or "dir"), that can be read or not, and whose
\* iterdir yields d.entries.
list_directory(d, show_hidden, detailed) ==
    IF d.kind # "dir" THEN <<>>
    ELSE IF ~d.readable THEN <<>>
    ELSE LET entries == SortedByKey(d.entries)
             shown(e) == show_hidden \/ ~IsHidden(e.name)
             kept == SelectSeq(entries, shown)
         IN  [i \in 1..Len(kept) |-> EntryInfo(kept[i], detailed)]

(***************************************************************************)
(* search.search_text.  A file holds bytes; a text, a pattern and a name   *)
(* are sequences of characters.                                            *)
(***************************************************************************)

\* A byte that is no valid UTF-8.
InvalidByte == "\\xff"

\* open(..., encoding="utf-8", errors="ignore"): invalid bytes are dropped.
Decode(bytes) == LET valid(b) == b # InvalidByte IN SelectSeq(bytes, valid)

\* Text mode reads "\r\n" and "\r" as "\n".
RECURSIVE TranslateNewlines(_)
TranslateNewlines(s) ==
    IF s = <<>> THEN <<>>
    ELSE IF Head(s) = "\r"
    THEN <<"\n">> \o TranslateNewlines(IF Len(s) > 1 /\ s[2] = "\n" THEN Tail(Tail(s)) ELSE Tail(s))
    ELSE <<Head(s)>> \o TranslateNewlines(Tail(s))

\* Iterating over the file: the lines, each with its "\n", the last one
\* without when the text does not end in one.
RECURSIVE ReadLines(_)
ReadLines(s) ==
    IF s = <<>> THEN <<>>
    ELSE IF \E i \in 1..Len(s) : s[i] = "\n"
    THEN LET nl == CHOOSE i \in 1..Len(s) : s[i] = "\n" /\ \A j \in 1..(i - 1) : s[j] # "\n"
         IN  <<SubSeq(s, 1, nl)>> \o ReadLines(SubSeq(s, nl + 1, Len(s)))
    ELSE <<s>>

\* enumerate(f, start): the lines paired with their numbers.
Enumerate(lines, start) == [i \in 1..Len(lines) |-> [line_num |-> start + i - 1, line |-> lines[i]]]

\* The lines numbered from 0.
NumberedLinesFromZero(lines) == Enumerate(lines, 0)

\* enumerate(f, 1)
NumberedLines(lines) == Enumerate(lines, 1)

\* re.compile(pattern): among the characters of the model "." stands for any
\* character but "\n", "[" opens a set that nothing closes, which is an
\* error, and every other character stands for itself.
CompileFails(pattern) == \E i \in 1..Len(pattern) : pattern[i] = "["

Compile(pattern) ==
    [i \in 1..Len(pattern) |-> [any |-> pattern[i] = ".", ch |-> pattern[i]]]

\* re.compile(re.escape(pattern)): every character stands for itself.
CompileEscaped(pattern) == [i \in 1..Len(pattern) |-> [any |-> FALSE, ch |-> pattern[i]]]

\* The regex of search_text: the pattern, or the escaped pattern when the
\* pattern does not compile.
Regex(pattern) == IF CompileFails(pattern) THEN CompileEscaped(pattern) ELSE Compile(pattern)

\* re.IGNORECASE on one character.
FoldChar(c) ==
    CASE c = "N" -> "n" [] c = "E" -> "e" [] c = "D" -> "d" [] c = "L" -> "l"
      [] c = "X" -> "x" [] OTHER -> c

AtomMatches(atom, c) == IF atom.any THEN c # "\n" ELSE FoldChar(atom.ch) = FoldChar(c)

\* regex.search(line)
RegexSearch(regex, line) ==
    \E i \in 1..(Len(line) - Len(regex) + 1) :
        \A k \in 1..Len(regex) : AtomMatches(regex[k], line[i + k - 1])

\* fnmatch.fnmatch(name, pat) for a pattern of "*", "?" and plain characters;
\* also the match of one path component in rglob.
RECURSIVE fnmatch(_, _)
fnmatch(name, pat) ==
    IF pat = <<>> THEN name = <<>>
    ELSE IF Head(pat) = "*"
    THEN fnmatch(name, Tail(pat)) \/ (name # <<>> /\ fnmatch(Tail(name), pat))
    ELSE /\ name # <<>>
         /\ Head(pat) = "?" \/ Head(pat) = Head(name)
         /\ fnmatch(Tail(name), Tail(pat))

\* The matches of one file; a file that cannot be opened gives none.
FileMatches(regex, item) ==
    IF ~item.readable THEN <<>>
    ELSE LET numbered == NumberedLines(ReadLines(TranslateNewlines(Decode(item.data))))
             hit(nl) == RegexSearch(regex, nl.line)
             hits == SelectSeq(numbered, hit)
         IN  [k \in 1..Len(hits) |->
                 [file |-> item.name, line |-> hits[k].line_num, content |-> hits[k].line]]

RECURSIVE SearchFiles(_, _)
SearchFiles(regex, items) ==
    IF items = <<>> THEN <<>>
    ELSE FileMatches(regex, Head(items)) \o SearchFiles(regex, Tail(items))

\* root.rglob(include) on the items under the root: what it yields, and the
\* exception raised.  '**' within a longer component is no pattern; an
\* include that is empty, '.', '..' or '**' alone selects directories only;
\* any other include is matched against the name of each item.
rglob(root, include) ==
    LET yields(item) ==
            IF include \in {<<>>, <<".">>, <<".", ".">>, <<"*", "*">>}
            THEN item.kind = "dir"
            ELSE fnmatch(item.name, include)
    IN  IF /\ include # <<"*", "*">>
           /\ \E i \in 1..(Len(include) - 1) : include[i] = "*" /\ include[i + 1] = "*"
        THEN [items |-> <<>>, exc |-> "ValueError"]
        ELSE [items |-> SelectSeq(root.items, yields), exc |-> "none"]

\* search_text(pattern, path, include, exclude) on the root at path: its
\* kind, and what lies under it in the order rglob walks it.  An empty
\* exclude is no exclude.  The result is the matches returned and the
\* exception raised; rglob raises wherever the root exists.
search_text(pattern, root, include, exclude) ==
    LET walk == rglob(root, include)
        selected(item) ==
            /\ item.kind = "file"
            /\ ~(exclude # <<>> /\ fnmatch(item.name, exclude))
    IN  IF root.kind = "none" THEN [result |-> <<>>, exc |-> "none"]
        ELSE IF walk.exc # "none" THEN [result |-> <<>>, exc |-> walk.exc]
        ELSE IF root.kind # "dir" THEN [result |-> <<>>, exc |-> "none"]
        ELSE [result |-> SearchFiles(Regex(pattern), SelectSeq(walk.items, selected)),
              exc |-> "none"]

(***************************************************************************)
(* search.find.  The root is given by its kind and by what lies under it   *)
(* in the order rglob walks it; an item is a name, a kind, for a link what *)
(* it points to, and the size that stat reports.                           *)
(***************************************************************************)

\* Path.is_file(), Path.is_dir(): both follow a link; Path.is_symlink().
is_file(item) == item.kind = "file" \/ (item.kind = "link" /\ item.target = "file")
is_dir(item) == item.kind = "dir" \/ (item.kind = "link" /\ item.target = "dir")
is_symlink(item) == item.kind = "link"

\* if name and not fnmatch.fnmatch(item.name, name): continue
NameKeeps(item, name) == name = <<>> \/ fnmatch(item.name, name)

\* if file_type: ... continue
TypeKeeps(item, file_type) ==
    IF file_type = <<"f", "i", "l", "e">> THEN is_file(item)
    ELSE IF file_type = <<"d", "i", "r">> THEN is_dir(item)
    ELSE IF file_type = <<"l", "i", "n", "k">> THEN is_symlink(item)
    ELSE TRUE

\* if size_filter and item.is_file(): ... continue; size_filter with exc
\* "unset" is None.
SizeKeeps(item, size_filter) ==
    (size_filter.exc = "none" /\ is_file(item))
        => _matches_size(item.size, size_filter.op, size_filter.threshold)

FindEntry(item) ==
    [path |-> item.name, name |-> item.name, type |-> IF is_dir(item) THEN "dir" ELSE "file"]

\* find(path, name, size, file_type) on the root at path: the entries
\* returned and the exception raised.  Empty strings are absent arguments.
\* root.exists() raises on a root whose name is too long for the system.
find(root, name, size, file_type) ==
    IF root.kind = "toolong" THEN [result |-> <<>>, exc |-> "OSError"]
    ELSE IF root.kind = "none" THEN [result |-> <<>>, exc |-> "none"]
    ELSE LET size_filter == IF size # <<>> THEN _parse_size_filter(size) ELSE Raised("unset")
             keeps(item) ==
                 /\ NameKeeps(item, name)
                 /\ TypeKeeps(item, file_type)
                 /\ SizeKeeps(item, size_filter)
             kept == SelectSeq(root.items, keeps)
         IN  IF size_filter.exc \notin {"none", "unset"}
             THEN [result |-> <<>>, exc |-> size_filter.exc]
             ELSE [result |-> [k \in 1..Len(kept) |-> FindEntry(kept[k])], exc |-> "none"]

(***************************************************************************)
(* example_workflow: organize_downloads, cleanup_old_backups and           *)
(* backup_project.  Each yields the file system afterwards and the         *)
(* exception raised ("none" when it returns).                              *)
(***************************************************************************)

\* The characters of a file name, as the patterns of glob are matched
\* against it.
NameChars ==
    ("a" :> <<"a">>) @@
    ("x.py" :> <<"x", ".", "p", "y">>) @@
    ("y.py" :> <<"y", ".", "p", "y">>) @@
    ("p.jpg" :> <<"p", ".", "j", "p", "g">>) @@
    ("images" :> <<"i", "m", "a", "g", "e", "s">>) @@
    ("documents" :> <<"d", "o", "c", "u", "m", "e", "n", "t", "s">>) @@
    ("archives" :> <<"a", "r", "c", "h", "i", "v", "e", "s">>) @@
    ("code" :> <<"c", "o", "d", "e">>) @@
    ("backup_x" :> <<"b", "a", "c", "k", "u", "p", "_", "x">>) @@
    ("backup_20200101_000000" :> <<"b", "a", "c", "k", "u", "p", "_", "2", "0", "2", "0", "0", "1", "0", "1", "_", "0", "0", "0", "0", "0", "0">>) @@
    ("backup_20200109_000000" :> <<"b", "a", "c", "k", "u", "p", "_", "2", "0", "2", "0", "0", "1", "0", "9", "_", "0", "0", "0", "0", "0", "0">>)

\* strftime and strptime with "%Y%m%d_%H%M%S": the time stamps of the model
\* and the day each falls on, counted from 1 January 2020.
Stamps == ("20200101_000000" :> 0) @@ ("20200109_000000" :> 8)

\* organize_downloads(downloads_dir), glob yielding the names in `order`:
\* for each category in turn its directory is made and, for each of its
\* patterns, every plain file of the downloads directory that matches is
\* moved into it, replacing what is there.
organize_downloads(f, downloads, order) ==
    LET categories ==
            << [name |-> "images",
                patterns |-> << <<"*", ".", "j", "p", "g">>,
                                <<"*", ".", "j", "p", "e", "g">>,
                                <<"*", ".", "p", "n", "g">>,
                                <<"*", ".", "g", "i", "f">>,
                                <<"*", ".", "b", "m", "p">>,
                                <<"*", ".", "s", "v", "g">> >>],
               [name |-> "documents",
                patterns |-> << <<"*", ".", "p", "d", "f">>,
                                <<"*", ".", "d", "o", "c">>,
                                <<"*", ".", "d", "o", "c", "x">>,
                                <<"*", ".", "x", "l", "s">>,
                                <<"*", ".", "x", "l", "s", "x">>,
                                <<"*", ".", "p", "p", "t">>,
                                <<"*", ".", "p", "p", "t", "x">> >>],
               [name |-> "archives",
                patterns |-> << <<"*", ".", "z", "i", "p">>,
                                <<"*", ".", "t", "a", "r">>,
                                <<"*", ".", "g", "z">>,
                                <<"*", ".", "r", "a", "r">>,
                                <<"*", ".", "7", "z">> >>],
               [name |-> "code",
                patterns |-> << <<"*", ".", "p", "y">>,
                                <<"*", ".", "j", "s">>,
                                <<"*", ".", "t", "s">>,
                                <<"*", ".", "j", "a", "v", "a">>,
                                <<"*", ".", "c", "p", "p">>,
                                <<"*", ".", "h">>,
                                <<"*", ".", "r", "s">> >>] >>
        glob(g, pattern) ==
            LET yields(n) == Exists(g, downloads \o <<n>>) /\ fnmatch(NameChars[n], pattern)
            IN  SelectSeq(order, yields)
        RECURSIVE ForFiles(_, _, _)
        ForFiles(st, dir, names) ==
            IF names = <<>> \/ st.exc # "none" THEN st
            ELSE LET file_path == downloads \o <<Head(names)>>
                     moved == move_file(st.fs, file_path, dir \o <<Head(names)>>, TRUE)
                 IN  ForFiles(IF IsFile(st.fs, file_path) THEN Raise(moved.fs, moved.exc) ELSE st,
                           dir, Tail(names))
        RECURSIVE ForPatterns(_, _, _)
        ForPatterns(st, dir, pats) ==
            IF pats = <<>> \/ st.exc # "none" THEN st
            ELSE ForPatterns(ForFiles(st, dir, glob(st.fs, Head(pats))), dir, Tail(pats))
        RECURSIVE ForCategories(_, _)
        ForCategories(st, cats) ==
            IF cats = <<>> \/ st.exc # "none" THEN st
            ELSE LET category_dir == downloads \o <<Head(cats).name>>
                     made == mkdir(st.fs, category_dir, FALSE, TRUE)
                 IN  IF made.exc # "none" THEN made
                     ELSE ForCategories(ForPatterns(made, category_dir, Head(cats).patterns),
                                     Tail(cats))
    IN  IF ~Exists(f, downloads) THEN Done(f)
        ELSE ForCategories(Done(f), categories)

\* cleanup_old_backups(backup_base, keep_days) on the day `now`, glob
\* yielding the names in `order`: every directory backup_<stamp> whose stamp
\* parses and lies more than keep_days days back is removed with all in it.
cleanup_old_backups(f, backup_base, keep_days, now, order) ==
    LET yields(n) ==
            /\ Exists(f, backup_base \o <<n>>)
            /\ fnmatch(NameChars[n], <<"b", "a", "c", "k", "u", "p", "_", "*">>)
        parses(n) == \E s \in DOMAIN Stamps : n = "backup_" \o s
        backup_date(n) == Stamps[CHOOSE s \in DOMAIN Stamps : n = "backup_" \o s]
        RECURSIVE ForBackups(_, _)
        ForBackups(st, names) ==
            IF names = <<>> \/ st.exc # "none" THEN st
            ELSE LET backup_dir == backup_base \o <<Head(names)>>
                     removed == remove(st.fs, backup_dir, TRUE, FALSE)
                 IN  ForBackups(IF /\ IsDir(st.fs, backup_dir)
                                /\ parses(Head(names))
                                /\ Stamps[now] - backup_date(Head(names)) > keep_days
                             THEN Raise(removed.fs, removed.exc)
                             ELSE st,
                             Tail(names))
    IN  IF ~Exists(f, backup_base) THEN Done(f)
        ELSE ForBackups(Done(f), SelectSeq(order, yields))

\* backup_project(source_dir, backup_dir, keep_days): the clock is read twice,
\* at line 26 (`now`, which names the backup) and in cleanup_old_backups at
\* line 45 (`later`, from which the ages are counted).  The source is
\* synchronised into backup_dir/backup_<now>, the walk yielding paths in
\* `walk`, and the old backups are cleaned up.  The clock is the local wall
\* clock: the second reading may be earlier than the first.
backup_project(f, source, backup_base, keep_days, now, later, walk, order) ==
    LET backup_dest == backup_base \o <<"backup_" \o now>>
        synced == Sync(f, source, backup_dest, FALSE, FALSE, walk)
    IN  IF ~Exists(f, source) THEN Done(f)
        ELSE IF synced.exc # "none" THEN Raise(synced.fs, synced.exc)
        ELSE cleanup_old_backups(synced.fs, backup_base, keep_days, later, order)

(***************************************************************************)
(* The synchroniser as a state machine: sync is called again and again on  *)
(* the trees S and D, with any flags and any walk order.                   *)
(***************************************************************************)
NoCall(f) ==
    [op |-> "none", delete |-> FALSE, dry_run |-> FALSE,
     pre |-> f, result |-> ZeroResult, exc |-> "none"]

\* The values of the variables a state machine does not use: a file system
\* without entries, no size spec parsed or matched, no directory listed, no
\* root searched.
Idle ==
    [fs |-> [p \in AbsPaths |-> Absent],
     size_in |-> [op |-> <<>>, num |-> <<>>, unit |-> <<>>],
     filter |-> [exc |-> "pending", op |-> <<>>, threshold |-> IntZero],
     matched |-> [done |-> FALSE, file_size |-> IntZero, result |-> FALSE],
     dir_in |-> [kind |-> "none", readable |-> TRUE, entries |-> <<>>],
     listed |-> [done |-> FALSE, show_hidden |-> FALSE, detailed |-> FALSE, result |-> <<>>],
     root |-> [kind |-> "none", items |-> <<>>],
     found |-> [done |-> FALSE, pattern |-> <<>>, include |-> <<>>, exclude |-> <<>>,
                result |-> <<>>, exc |-> "none"],
     find_out |-> [done |-> FALSE, name |-> <<>>, size |-> <<>>, file_type |-> <<>>,
                   result |-> <<>>, exc |-> "none"]]

Init ==
    /\ fs \in FileSystems
    /\ last = NoCall(fs)
    /\ prev = NoCall(fs)
    /\ size_in = Idle.size_in
    /\ filter = Idle.filter
    /\ matched = Idle.matched
    /\ dir_in = Idle.dir_in
    /\ listed = Idle.listed
    /\ search_in = Idle.root
    /\ found = Idle.found
    /\ find_in = Idle.root
    /\ find_out = Idle.find_out

SyncCall(delete, dry_run, order) ==
    LET r == Sync(fs, SrcRoot, DstRoot, delete, dry_run, order)
    IN  /\ fs' = r.fs
        /\ last' = [op |-> "sync", delete |-> delete, dry_run |-> dry_run,
                    pre |-> fs, result |-> r.result, exc |-> r.exc]
        /\ prev' = last
        /\ UNCHANGED <<size_in, filter, matched, dir_in, listed, search_in, found, find_in, find_out>>

Next ==
    \E delete, dry_run \in BOOLEAN, order \in WalkOrders :
        SyncCall(delete, dry_run, order)

Spec == Init /\ [][Next]_vars


(***************************************************************************)
(* The size filter as a state machine: a size spec is written as an        *)
(* operator, a numeral and a unit, parsed, and the filter is then applied  *)
(* to a file size.                                                         *)
(***************************************************************************)
OpStrs == {<<>>, <<">">>, <<">", "=">>, <<"<">>, <<"<", "=">>}

NumChars == {"0", "5", ".", "-", " "}

\* Numerals beyond MaxNumLen: around 2^53, and of MaxStrDigits and
\* MaxStrDigits + 1 digits.
LongNumerals ==
    { [i \in 1..MaxStrDigits |-> "1"], [i \in 1..(MaxStrDigits + 1) |-> "1"],
      <<"1">>, <<"2">>, <<"1", "0", "0">>, <<"1", ".", "5">>, <<"+", "5">>,
      <<"a", "b", "c">>, <<"i", "n", "f">>, <<"n", "a", "n">>, <<"5", "x">>,
      <<"9", "0", "0", "7", "1", "9", "9", "2", "5", "4", "7", "4", "0", "9", "9", "1">>,
      <<"9", "0", "0", "7", "1", "9", "9", "2", "5", "4", "7", "4", "0", "9", "9", "2">>,
      <<"9", "0", "0", "7", "1", "9", "9", "2", "5", "4", "7", "4", "0", "9", "9", "3">>,
      <<"9", "0", "0", "7", "1", "9", "9", "2", "5", "4", "7", "4", "0", "9", "9", "4">>,
      <<"1", "8", "0", "1", "4", "3", "9", "8", "5", "0", "9", "4", "8", "1", "9", "8", "7">> }

SizeInputs ==
    [op : OpStrs,
     num : UNION {[1..n -> NumChars] : n \in 0..MaxNumLen} \cup LongNumerals,
     unit : {<<>>, <<"B">>, <<"K", "B">>, <<"M", "B">>, <<"G", "B">>, <<"T", "B">>,
             <<"k", "b">>, <<"P", "B">>}]
        \cup {[op |-> <<" ", ">">>, num |-> <<"5">>, unit |-> <<"K", "B", " ">>]}
        \cup LET Numeral(d) == [i \in 1..Len(d) |-> DigitChars[d[i] + 1]]
             IN  [op : {<<"<">>}, num : {Numeral(TwoTo1024), Numeral(Halve(TwoTo1024))},
                  unit : {<<>>, <<"B">>, <<"K", "B">>}]

\* The size spec as the string handed to _parse_size_filter.
SizeStr(in) == in.op \o in.num \o in.unit

\* The file sizes a filter is applied to.
FileSizes ==
    { MkInt(FALSE, <<0>>), MkInt(FALSE, <<2, 0, 4, 8>>),
      MkInt(FALSE, <<1, 0, 4, 8, 5, 7, 6>>), MkInt(FALSE, <<1, 0, 4, 8, 5, 7, 7>>) }

SizeInit ==
    /\ fs = Idle.fs
    /\ last = NoCall(fs)
    /\ prev = NoCall(fs)
    /\ size_in \in SizeInputs
    /\ filter = Idle.filter
    /\ matched = Idle.matched
    /\ dir_in = Idle.dir_in
    /\ listed = Idle.listed
    /\ search_in = Idle.root
    /\ found = Idle.found
    /\ find_in = Idle.root
    /\ find_out = Idle.find_out

\* find parses the size it is given when it is not empty; an empty size is
\* no filter, and the match below is then never asked for.
ParseCall ==
    /\ filter = Idle.filter
    /\ filter' = IF SizeStr(size_in) # <<>> THEN _parse_size_filter(SizeStr(size_in))
                  ELSE Raised("unset")
    /\ UNCHANGED <<fs, last, prev, size_in, matched, dir_in, listed, search_in, found, find_in, find_out>>

MatchCall(file_size) ==
    /\ filter.exc = "none"
    /\ ~matched.done
    /\ matched' = [done |-> TRUE, file_size |-> file_size,
                   result |-> _matches_size(file_size, filter.op, filter.threshold)]
    /\ UNCHANGED <<fs, last, prev, size_in, filter, dir_in, listed, search_in, found, find_in, find_out>>

SizeNext ==
    \/ ParseCall
    \/ \E file_size \in FileSizes : MatchCall(file_size)

SizeSpec == SizeInit /\ [][SizeNext]_vars

(***************************************************************************)
(* The listing as a state machine: a directory is listed once, with any    *)
(* flags.                                                                  *)
(***************************************************************************)
DirEntries ==
    [name : { <<".", "a">>, <<".", "B">>, <<"a">>, <<"b">>, <<"B">> },
     kind : {"file", "dir", "broken"}]

\* What iterdir can yield: entries with distinct names, in any order.
EntrySeqs ==
    UNION { {e \in [1..n -> DirEntries] :
                \A i, j \in 1..n : i # j => e[i].name # e[j].name} : n \in 0..MaxEntries }

ListInit ==
    /\ fs = Idle.fs
    /\ last = NoCall(fs)
    /\ prev = NoCall(fs)
    /\ size_in = Idle.size_in
    /\ filter = Idle.filter
    /\ matched = Idle.matched
    /\ dir_in \in [kind : {"dir"}, readable : BOOLEAN, entries : EntrySeqs]
                     \cup [kind : {"none", "file"}, readable : {TRUE}, entries : {<<>>}]
    /\ listed = Idle.listed
    /\ search_in = Idle.root
    /\ found = Idle.found
    /\ find_in = Idle.root
    /\ find_out = Idle.find_out

ListCall(show_hidden, detailed) ==
    /\ ~listed.done
    /\ listed' = [done |-> TRUE, show_hidden |-> show_hidden, detailed |-> detailed,
                  result |-> list_directory(dir_in, show_hidden, detailed)]
    /\ UNCHANGED <<fs, last, prev, size_in, filter, matched, dir_in, search_in, found, find_in, find_out>>

ListNext == \E show_hidden, detailed \in BOOLEAN : ListCall(show_hidden, detailed)

ListSpec == ListInit /\ [][ListNext]_vars

(***************************************************************************)
(* The file operations as a state machine: copy_file, move_file, remove,   *)
(* rename and create_directory are called on the paths of the file system, *)
(* with any flag.                                                          *)
(***************************************************************************)

\* The paths a call writes stay among the paths of the model: the place
\* where src lands, and for a directory that moves, the places of all that
\* lies in it.  A call on a missing src, or on a dst whose name the system
\* refuses, writes nothing but the parents of dst.
WithinModel(f, src, dst) ==
    LET real == RealDst(f, src, dst)
    IN  (Exists(f, src) /\ dst \in AbsPaths) =>
            /\ real \in AbsPaths
            /\ \A p \in AbsPaths :
                   (IsPrefix(src, p) /\ Exists(f, p))
                       => real \o SubSeq(p, Len(src) + 1, Len(p)) \in AbsPaths

\* The paths the file operations are called on.
CallPaths == AbsPaths \cup {SrcRoot \o <<LongName>>, DstRoot \o <<NulName>>}

FileInit ==
    /\ fs \in FileSystems
    /\ last = [op |-> "none", src |-> <<>>, dst |-> <<>>, overwrite |-> FALSE,
               pre |-> fs, ret |-> FALSE, exc |-> "none"]
    /\ prev = last
    /\ size_in = Idle.size_in
    /\ filter = Idle.filter
    /\ matched = Idle.matched
    /\ dir_in = Idle.dir_in
    /\ listed = Idle.listed
    /\ search_in = Idle.root
    /\ found = Idle.found
    /\ find_in = Idle.root
    /\ find_out = Idle.find_out

CopyFileCall(src, dst, overwrite) ==
    LET r == copy_file(fs, src, dst, overwrite)
    IN  /\ last.op = "none"
        /\ WithinModel(fs, src, dst)
        /\ fs' = r.fs
        /\ last' = [op |-> "copy_file", src |-> src, dst |-> dst,
                    overwrite |-> overwrite, pre |-> fs, ret |-> r.ret, exc |-> r.exc]
        /\ UNCHANGED <<prev, size_in, filter, matched, dir_in, listed, search_in, found, find_in, find_out>>

MoveFileCall(src, dst, overwrite) ==
    LET r == move_file(fs, src, dst, overwrite)
    IN  /\ last.op = "none"
        /\ WithinModel(fs, src, dst)
        /\ fs' = r.fs
        /\ last' = [op |-> "move_file", src |-> src, dst |-> dst,
                    overwrite |-> overwrite, pre |-> fs, ret |-> r.ret, exc |-> r.exc]
        /\ UNCHANGED <<prev, size_in, filter, matched, dir_in, listed, search_in, found, find_in, find_out>>

RemoveCall(path, recursive, force) ==
    LET r == remove(fs, path, recursive, force)
    IN  /\ last.op = "none"
        /\ fs' = r.fs
        /\ last' = [op |-> "remove", path |-> path, recursive |-> recursive,
                    force |-> force, pre |-> fs, ret |-> r.ret, exc |-> r.exc]
        /\ UNCHANGED <<prev, size_in, filter, matched, dir_in, listed, search_in, found, find_in, find_out>>

\* The entry and all below it stay on the paths of the model at the new name.
RenameCall(path, new_name) ==
    LET r == rename(fs, path, new_name)
        dst == Parent(path) \o <<new_name>>
    IN  /\ last.op = "none"
        /\ dst \in CallPaths
        /\ \A p \in AbsPaths :
               (IsPrefix(path, p) /\ Exists(fs, p))
                   => dst \o SubSeq(p, Len(path) + 1, Len(p)) \in CallPaths
        /\ fs' = r.fs
        /\ last' = [op |-> "rename", path |-> path, new_name |-> new_name,
                    pre |-> fs, ret |-> r.ret, exc |-> r.exc]
        /\ UNCHANGED <<prev, size_in, filter, matched, dir_in, listed, search_in, found, find_in, find_out>>

CreateDirectoryCall(path, parents) ==
    LET r == create_directory(fs, path, parents)
    IN  /\ last.op = "none"
        /\ fs' = r.fs
        /\ last' = [op |-> "create_directory", path |-> path, parents |-> parents,
                    pre |-> fs, ret |-> r.ret, exc |-> r.exc]
        /\ UNCHANGED <<prev, size_in, filter, matched, dir_in, listed, search_in, found, find_in, find_out>>

FileNext ==
    \/ \E src \in CallPaths, dst \in CallPaths, overwrite \in BOOLEAN :
           \/ CopyFileCall(src, dst, overwrite)
           \/ MoveFileCall(src, dst, overwrite)
    \/ \E path \in CallPaths, recursive \in BOOLEAN, force \in BOOLEAN :
           RemoveCall(path, recursive, force)
    \/ \E path \in CallPaths, new_name \in {"a", "b", "f", "S", "D", LongName, NulName} :
           RenameCall(path, new_name)
    \/ \E path \in CallPaths, parents \in BOOLEAN :
           CreateDirectoryCall(path, parents)

FileSpec == FileInit /\ [][FileNext]_vars

(***************************************************************************)
(* The text search as a state machine: a root is searched once, with any   *)
(* pattern and globs.                                                      *)
(***************************************************************************)
TextChars == {"n", "N", "\n", "\r"}

LongTexts ==
    { <<"x", "\n", "n", "e", "e", "d", "l", "e", "\n", "x", "\n", "x", "\n", "n", "e", "e", "d", "l", "e">>,
      <<"x", "\n", "n", "e", "e", "d", "l", "e", " ", "n", "e", "e", "d", "l", "e", "\n", "X", "\n", "x", "\n", "N", "E", "E", "D", "L", "E", "\n">>,
      <<"n", "e", "e", InvalidByte, "d", "l", "e", "\n">>,
      <<"[", "\n", "[", "n", "\n", ".", "\n">>,
      <<"x", "\r", "n", "e", "e", "d", "l", "e", "\r", InvalidByte, "\n", "x", "\n">> }

\* The file whose text varies, and what may lie beside it.
SubjectFiles ==
    [name : {<<"a", ".", "t", "x", "t">>}, kind : {"file"}, readable : BOOLEAN,
     data : UNION {[1..n -> TextChars] : n \in 0..MaxTextLen} \cup LongTexts]

OtherItems ==
    { [name |-> <<"b", ".", "t", "x", "t">>, kind |-> "file", readable |-> TRUE, data |-> <<"N", "e", "e", "d", "l", "e", "\n">>],
      [name |-> <<"c", ".", "p", "y">>, kind |-> "file", readable |-> TRUE, data |-> <<"n", "e", "e", "d", "l", "e">>],
      [name |-> <<"d", ".", "t", "x", "t">>, kind |-> "dir", readable |-> TRUE, data |-> <<>>] }

\* A root that is a directory holds what rglob can yield: the items under
\* it in any order.
Roots ==
    [kind : {"dir"},
     items : {<<>>} \cup {<<i>> : i \in SubjectFiles \cup OtherItems}
                    \cup {<<i, j>> : i \in SubjectFiles, j \in OtherItems}
                    \cup {<<j, i>> : i \in SubjectFiles, j \in OtherItems}]
        \cup [kind : {"none", "file"}, items : {<<>>}]

SearchInit ==
    /\ fs = Idle.fs
    /\ last = NoCall(fs)
    /\ prev = NoCall(fs)
    /\ size_in = Idle.size_in
    /\ filter = Idle.filter
    /\ matched = Idle.matched
    /\ dir_in = Idle.dir_in
    /\ listed = Idle.listed
    /\ search_in \in Roots
    /\ found = Idle.found
    /\ find_in = Idle.root
    /\ find_out = Idle.find_out

SearchCall(pattern, include, exclude) ==
    /\ ~found.done
    /\ found' = [done |-> TRUE, pattern |-> pattern, include |-> include,
                 exclude |-> exclude,
                 result |-> search_text(pattern, search_in, include, exclude).result,
                 exc |-> search_text(pattern, search_in, include, exclude).exc]
    /\ UNCHANGED <<fs, last, prev, size_in, filter, matched, dir_in, listed, search_in, find_in, find_out>>

SearchNext ==
    \E pattern \in { <<>>, <<"n">>, <<"N">>, <<".">>, <<"[">>, <<"[", "n">>, <<"n", "n">>,
                      <<"n", ".">>, <<"x">>, <<"n", "e", "e", "d", "l", "e">> },
       include \in { <<"*", ".", "t", "x", "t">>, <<"*">>, <<"a", "*">>, <<"*", "*">>,
                     <<"*", "*", "*">> },
       exclude \in { <<>>, <<"b", "*">> } :
        SearchCall(pattern, include, exclude)

SearchSpec == SearchInit /\ [][SearchNext]_vars

(***************************************************************************)
(* find as a state machine: a root is searched once, with any filters.     *)
(***************************************************************************)
FindNames == { <<"a">>, <<"l", "l">> }

FindItems ==
    [name : FindNames, kind : {"file"}, target : {"file"}, size : FileSizes]
        \cup [name : FindNames, kind : {"dir"}, target : {"dir"}, size : {IntZero}]
        \cup [name : FindNames, kind : {"link"}, target : {"file"}, size : FileSizes]
        \cup [name : FindNames, kind : {"link"}, target : {"dir", "none"}, size : {IntZero}]

\* A root that is a directory holds what rglob can yield: items with
\* distinct names, in any order.
FindRoots ==
    [kind : {"dir"},
     items : {<<>>} \cup {<<i>> : i \in FindItems}
                    \cup {p \in FindItems \X FindItems : p[1].name # p[2].name}]
        \cup [kind : {"none", "file", "toolong"}, items : {<<>>}]

FindInit ==
    /\ fs = Idle.fs
    /\ last = NoCall(fs)
    /\ prev = NoCall(fs)
    /\ size_in = Idle.size_in
    /\ filter = Idle.filter
    /\ matched = Idle.matched
    /\ dir_in = Idle.dir_in
    /\ listed = Idle.listed
    /\ search_in = Idle.root
    /\ found = Idle.found
    /\ find_in \in FindRoots
    /\ find_out = Idle.find_out

FindCall(name, size, file_type) ==
    LET r == find(find_in, name, size, file_type)
    IN  /\ ~find_out.done
        /\ find_out' = [done |-> TRUE, name |-> name, size |-> size, file_type |-> file_type,
                        result |-> r.result, exc |-> r.exc]
        /\ UNCHANGED <<fs, last, prev, size_in, filter, matched, dir_in, listed, search_in, found, find_in>>

FindNext ==
    \E name \in { <<>>, <<"a">>, <<"*">>, <<"?">>, <<"l", "*">> },
       size \in { <<>>, <<">", "1", "M", "B">>, <<"<", "=", "2", "K", "B">>,
                   <<">", "=", "2", "k", "b">>, <<"<", "1", "M", "B">>, <<"a", "b", "c">>,
                   <<"0">>, <<">", "i", "n", "f", "K", "B">> },
       file_type \in { <<>>, <<"f", "i", "l", "e">>, <<"d", "i", "r">>,
                       <<"l", "i", "n", "k">>, <<"o", "t", "h", "e", "r">> } :
        FindCall(name, size, file_type)

FindSpec == FindInit /\ [][FindNext]_vars

(***************************************************************************)
(* The workflows as a state machine: organize_downloads runs on the        *)
(* directory downloads, backup_project on the source S and the backup      *)
(* directory D, cleanup_old_backups on D, at any of the times of Stamps    *)
(* and with glob and the walk yielding in any of the orders given.         *)
(***************************************************************************)
WorkflowPaths ==
    {<<"downloads">> \o p :
        p \in {<<>>, <<"a">>, <<"x.py">>, <<"y.py">>, <<"p.jpg">>, <<"images">>,
               <<"images", "p.jpg">>, <<"documents">>, <<"archives">>, <<"code">>,
               <<"code", "x.py">>, <<"code", "y.py">>, <<"code", "x.py", "x.py">>}}
        \cup {SrcRoot \o p : p \in {<<>>} \cup RelPaths}
        \cup {DstRoot, DstRoot \o <<"a">>, DstRoot \o <<"backup_x">>}
        \cup {DstRoot \o <<"backup_" \o s>> \o p : s \in DOMAIN Stamps, p \in {<<>>} \cup RelPaths}

\* Either a downloads directory with files to sort, or a source tree and a
\* backup directory with an old backup.
WorkflowFileSystems ==
    LET none == [p \in WorkflowPaths |-> Absent]
        file(c) == [kind |-> "file", data |-> c]
        dl == <<"downloads">>
        old == DstRoot \o <<"backup_20200101_000000">>
        downloads ==
            {(dl :> r) @@ (dl \o <<"a">> :> a) @@ (dl \o <<"x.py">> :> x)
                 @@ (dl \o <<"y.py">> :> y) @@ (dl \o <<"p.jpg">> :> j)
                 @@ (dl \o <<"images">> :> i) @@ (dl \o <<"archives">> :> z)
                 @@ (dl \o <<"code">> :> c) @@ (dl \o <<"code", "x.py">> :> cx)
                 @@ (dl \o <<"code", "y.py">> :> cy) @@ none :
               r \in {Absent, Dir, file(1)}, a \in {Absent, file(1)},
               x \in {Absent, Dir, file(1)}, y \in {Absent, file(2)},
               j \in {Absent, file(1)}, i \in {Absent, Dir, file(1)},
               z \in {Absent, file(1)}, c \in {Absent, Dir},
               cx \in {Absent, Dir, file(2)}, cy \in {Absent, file(2)}}
        sources == [{SrcRoot \o p : p \in {<<>>} \cup RelPaths} -> Entries]
        olds ==
            {(old :> Absent), (old :> file(1)), (old :> Dir),
             (old :> Dir) @@ (old \o <<"a">> :> Dir) @@ (old \o <<"a", "f">> :> file(1))}
        backups ==
            {src @@ (DstRoot :> d) @@ (DstRoot \o <<"a">> :> a)
                 @@ (DstRoot \o <<"backup_x">> :> b) @@ o
                 @@ (DstRoot \o <<"backup_20200109_000000">> :> n) @@ none :
               src \in sources, d \in {Absent, Dir, file(1)}, a \in {Absent, Dir},
               b \in {Absent, Dir}, o \in olds, n \in {Absent, Dir}}
    IN  {f \in downloads \cup backups : WellFormed(f)}

WorkflowInit ==
    /\ fs \in WorkflowFileSystems
    /\ last = [op |-> "none", pre |-> fs, exc |-> "none"]
    /\ prev = last
    /\ size_in = Idle.size_in
    /\ filter = Idle.filter
    /\ matched = Idle.matched
    /\ dir_in = Idle.dir_in
    /\ listed = Idle.listed
    /\ search_in = Idle.root
    /\ found = Idle.found
    /\ find_in = Idle.root
    /\ find_out = Idle.find_out

OrganizeDownloadsCall(order) ==
    LET r == organize_downloads(fs, <<"downloads">>, order)
    IN  /\ last.op = "none"
        /\ fs' = r.fs
        /\ last' = [op |-> "organize_downloads", order |-> order, pre |-> fs, exc |-> r.exc]
        /\ UNCHANGED <<prev, size_in, filter, matched, dir_in, listed, search_in, found, find_in, find_out>>

CleanupOldBackupsCall(keep_days, now, order) ==
    LET r == cleanup_old_backups(fs, DstRoot, keep_days, now, order)
    IN  /\ last.op = "none"
        /\ fs' = r.fs
        /\ last' = [op |-> "cleanup_old_backups", keep_days |-> keep_days, now |-> now,
                    order |-> order, pre |-> fs, exc |-> r.exc]
        /\ UNCHANGED <<prev, size_in, filter, matched, dir_in, listed, search_in, found, find_in, find_out>>

BackupProjectCall(keep_days, now, later, walk, order) ==
    LET r == backup_project(fs, SrcRoot, DstRoot, keep_days, now, later, walk, order)
    IN  /\ last.op = "none"
        /\ fs' = r.fs
        /\ last' = [op |-> "backup_project", keep_days |-> keep_days, now |-> now,
                    later |-> later, walk |-> walk, order |-> order, pre |-> fs,
                    exc |-> r.exc]
        /\ UNCHANGED <<prev, size_in, filter, matched, dir_in, listed, search_in, found, find_in, find_out>>

WorkflowNext ==
    \/ \E order \in {<<"a", "p.jpg", "x.py", "y.py", "images", "documents", "archives", "code">>,
                     <<"code", "archives", "documents", "images", "y.py", "x.py", "p.jpg", "a">>} :
           OrganizeDownloadsCall(order)
    \/ \E keep_days \in {7, 8}, now \in DOMAIN Stamps,
          order \in {<<"a", "backup_x", "backup_20200101_000000", "backup_20200109_000000">>,
                     <<"backup_20200109_000000", "backup_20200101_000000", "backup_x", "a">>} :
           \/ CleanupOldBackupsCall(keep_days, now, order)
           \/ \E later \in DOMAIN Stamps, walk \in WalkOrders :
                  BackupProjectCall(keep_days, now, later, walk, order)

WorkflowSpec == WorkflowInit /\ [][WorkflowNext]_vars

(***************************************************************************)
(* Properties of sync.                                                     *)
(***************************************************************************)
IsSync == last.op = "sync"

\* The relative paths that are plain files under root in f.
FilesUnder(f, root) == {rel \in RelPaths : IsFile(f, root \o rel)}

\* The source files whose destination path exists / does not exist in f.
SrcPresentInDst(f) ==
    {rel \in FilesUnder(f, SrcRoot) : Exists(f, DstRoot \o rel)}
SrcAbsentFromDst(f) ==
    {rel \in FilesUnder(f, SrcRoot) : ~Exists(f, DstRoot \o rel)}

\* The destination files with nothing at their path under the source.
DstExtra(f) == {rel \in FilesUnder(f, DstRoot) : ~Exists(f, SrcRoot \o rel)}

\* The destination is missing or is a directory with nothing in it.
DstEmpty(f) ==
    /\ ~IsFile(f, DstRoot)
    /\ \A rel \in RelPaths : ~Exists(f, DstRoot \o rel)

\* C1: a sync without delete and without dry-run of a source directory
\* returns normally, afterwards every plain file under the source is a plain
\* file at the same relative path under the destination, and copied is the
\* number of source files that were absent from the destination.
C1_SyncCopiesEverySourceFile ==
    (IsSync /\ ~last.delete /\ ~last.dry_run /\ IsDir(last.pre, SrcRoot)) =>
        /\ last.exc = "none"
        /\ \A rel \in FilesUnder(last.pre, SrcRoot) : IsFile(fs, DstRoot \o rel)
        /\ last.result.copied = Cardinality(SrcAbsentFromDst(last.pre))

\* C2: two syncs in a row without delete and without dry-run, the first
\* starting from an empty destination: both return, the second with copied = 0
\* and skipped equal to the copied total of the first.
C2_SecondSyncSkipsAll ==
    (/\ IsSync /\ ~last.delete /\ ~last.dry_run
     /\ prev.op = "sync" /\ ~prev.delete /\ ~prev.dry_run
     /\ IsDir(prev.pre, SrcRoot) /\ DstEmpty(prev.pre)) =>
        /\ prev.exc = "none"
        /\ last.exc = "none"
        /\ last.result.copied = 0
        /\ last.result.skipped = prev.result.copied

\* C3: a sync with delete and without dry-run of a source directory returns,
\* the destination files it removed are exactly those with nothing at their
\* path under the source, deleted is their number, and a file present in both
\* trees is left as it was.
C3_DeleteRemovesExactlyExtras ==
    (IsSync /\ last.delete /\ ~last.dry_run /\ IsDir(last.pre, SrcRoot)) =>
        LET removed == FilesUnder(last.pre, DstRoot) \ FilesUnder(fs, DstRoot)
            both == FilesUnder(last.pre, SrcRoot) \cap FilesUnder(last.pre, DstRoot)
        IN  /\ last.exc = "none"
            /\ removed = DstExtra(last.pre)
            /\ last.result.deleted = Cardinality(removed)
            /\ \A rel \in both : fs[DstRoot \o rel] = last.pre[DstRoot \o rel]
            /\ last.result.copied = Cardinality(SrcAbsentFromDst(last.pre))

\* C4: a dry run creates, overwrites and removes no plain file under the
\* destination, and when it returns, copied and deleted are the numbers of
\* files that a real run from the same starting state copies and deletes.
C4_DryRunReportsRealCounts ==
    (IsSync /\ last.dry_run) =>
        /\ \A rel \in RelPaths :
               IsFile(last.pre, DstRoot \o rel) \/ IsFile(fs, DstRoot \o rel)
                   => fs[DstRoot \o rel] = last.pre[DstRoot \o rel]
        /\ last.exc = "none" =>
               \A order \in WalkOrders :
                   LET real == Sync(last.pre, SrcRoot, DstRoot, last.delete,
                                    FALSE, order)
                       before == FilesUnder(last.pre, DstRoot)
                       after == FilesUnder(real.fs, DstRoot)
                   IN  /\ real.exc = "none"
                       /\ last.result.copied = Cardinality(after \ before)
                       /\ last.result.deleted = Cardinality(before \ after)

\* C5: sync leaves every destination path that existed before the call and
\* corresponds to a source file as it was, and when it returns, skipped is the
\* number of those files and copied the number of the other source files.
C5_SyncNeverOverwrites ==
    IsSync =>
        /\ \A rel \in SrcPresentInDst(last.pre) :
               fs[DstRoot \o rel] = last.pre[DstRoot \o rel]
        /\ last.exc = "none" =>
               /\ last.result.skipped = Cardinality(SrcPresentInDst(last.pre))
               /\ last.result.copied = Cardinality(SrcAbsentFromDst(last.pre))

\* A sync returned having skipped a source file whose destination held other
\* content, next to a source file it counted as copied.
C5_Witness ==
    /\ IsSync /\ last.exc = "none"
    /\ last.result.skipped >= 1 /\ last.result.copied >= 1
    /\ \E rel \in SrcPresentInDst(last.pre) :
           /\ IsFile(last.pre, DstRoot \o rel)
           /\ last.pre[DstRoot \o rel] # last.pre[SrcRoot \o rel]
           /\ fs[DstRoot \o rel] = last.pre[DstRoot \o rel]


\* C13: whenever a sync with delete and without dry-run of a source
\* directory returns normally, the plain files under the destination are at
\* the same relative paths as the plain files under the source, whatever the
\* two trees held before.
C13_SyncDeleteMirrors ==
    (IsSync /\ last.delete /\ ~last.dry_run /\ IsDir(last.pre, SrcRoot) /\ last.exc = "none")
        => FilesUnder(fs, DstRoot) = FilesUnder(fs, SrcRoot)

(***************************************************************************)
(* Properties of the size filter.                                          *)
(***************************************************************************)
\* The parser ran: find calls it for a size that is not empty, and an empty
\* size leaves the filter unset.
Parsed == filter.exc \notin {"pending", "unset"}

\* The units as the specification lists them: each 1024 times the previous.
UnitNames == << <<"B">>, <<"K", "B">>, <<"M", "B">>, <<"G", "B">>, <<"T", "B">> >>
IsUnitName(u) == \E k \in 1..Len(UnitNames) : UnitNames[k] = u
UnitIndex(u) ==
    IF u = <<>> THEN 0 ELSE (CHOOSE k \in 1..Len(UnitNames) : UnitNames[k] = u) - 1

\* The spec is an operator (or none), a non-negative integer and a unit (or
\* none), as C6 describes it.
PlainSpec(in) ==
    /\ in.op \in OpStrs
    /\ in.num # <<>> /\ AllDigits(in.num)
    /\ in.unit = <<>> \/ IsUnitName(in.unit)

\* What C6 expects for a plain spec: the operator written (> when none) and
\* n * 1024^k.
ExpectedFilter(in) ==
    Filter(IF in.op = <<>> THEN <<">">> ELSE in.op,
           MkInt(FALSE, MulPow1024(DigitsOf(in.num), UnitIndex(in.unit))))

\* '<=2KB' gives ('<=', 2048); '>1MB' gives ('>', 1048576), which 1048577
\* matches and 1048576 does not.
SizeExamples ==
    /\ (Parsed /\ size_in = [op |-> <<"<", "=">>, num |-> <<"2">>, unit |-> <<"K", "B">>])
           => filter = Filter(<<"<", "=">>, MkInt(FALSE, <<2, 0, 4, 8>>))
    /\ (Parsed /\ size_in = [op |-> <<">">>, num |-> <<"1">>, unit |-> <<"M", "B">>])
           => /\ filter = Filter(<<">">>, MkInt(FALSE, <<1, 0, 4, 8, 5, 7, 6>>))
              /\ matched.done =>
                     matched.result = (matched.file_size = MkInt(FALSE, <<1, 0, 4, 8, 5, 7, 7>>))

\* C6 as claimed: for every operator, every non-negative integer n and every
\* unit, the parser returns the operator and n * 1024^k, and the examples hold.
C6_ParseExactForEveryInteger ==
    /\ (Parsed /\ PlainSpec(size_in)) => filter = ExpectedFilter(size_in)
    /\ SizeExamples

\* C6 as amended: the same for every n up to 2^53 when a unit is written, and
\* for every n written with at most 4300 digits when no unit is written.
C6_ParseExactUpTo2p53 ==
    /\ (/\ Parsed /\ PlainSpec(size_in)
        /\ IF size_in.unit = <<>> THEN Len(size_in.num) <= MaxStrDigits
           ELSE ~NatLess(TwoTo53, DigitsOf(size_in.num)))
           => filter = ExpectedFilter(size_in)
    /\ SizeExamples

\* '>1MB' was parsed to ('>', 1048576) and the filter matched 1048577.
C6_Witness ==
    /\ size_in = [op |-> <<">">>, num |-> <<"1">>, unit |-> <<"M", "B">>]
    /\ filter = Filter(<<">">>, MkInt(FALSE, <<1, 0, 4, 8, 5, 7, 6>>))
    /\ matched.done /\ matched.result
    /\ matched.file_size = MkInt(FALSE, <<1, 0, 4, 8, 5, 7, 7>>)

\* The numeral of the spec is not a number: float rejects it where a unit
\* follows, int rejects it where none does, and a suffix that is no unit
\* leaves no number at all.
NumeralFails(in) ==
    LET u == Strip(Upper(in.unit))
    IN  IF u = <<>> THEN ~ParseInt(in.num).ok
        ELSE IF IsUnitName(u) THEN ~ParseFloat(in.num).ok
        ELSE TRUE

\* C7: when the numeral does not parse, the parser raises nothing and returns
\* ('>', 0), whatever operator was written.
C7_MalformedNumberGivesDefault ==
    (Parsed /\ NumeralFails(size_in)) => filter = Filter(<<">">>, IntZero)

\* '<=abcMB' was parsed, to ('>', 0).
C7_Witness ==
    /\ size_in = [op |-> <<"<", "=">>, num |-> <<"a", "b", "c">>, unit |-> <<"M", "B">>]
    /\ filter = Filter(<<">">>, IntZero)

\* C8: the threshold of every filter the parser returns is non-negative.
C8_ThresholdNonNegative ==
    (Parsed /\ filter.exc = "none") => ~filter.threshold.neg


(***************************************************************************)
(* Properties of list_directory.                                           *)
(***************************************************************************)

\* A readable directory was listed.
Listed == listed.done /\ dir_in.kind = "dir" /\ dir_in.readable

EntryNamed(name) == CHOOSE e \in DirEntries :
    e.name = name /\ \E i \in 1..Len(dir_in.entries) : dir_in.entries[i] = e

\* The entries of the returned list, in the returned order.
Returned == [i \in 1..Len(listed.result) |-> EntryNamed(listed.result[i].name)]

GivenNames == {dir_in.entries[i].name : i \in 1..Len(dir_in.entries)}
ReturnedNames == {listed.result[i].name : i \in 1..Len(listed.result)}

\* key(x) <= key(y) for the key (is-file, lowercased name), written out.
KeyLeq(x, y) ==
    LET xf == IF x.kind = "file" THEN 1 ELSE 0
        yf == IF y.kind = "file" THEN 1 ELSE 0
    IN  xf < yf \/ (xf = yf /\ ~StrLess(Lower(y.name), Lower(x.name)))

\* Without show_hidden no returned name starts with a dot and every other
\* entry is returned; with show_hidden every entry is returned, once.
HiddenFiltered ==
    Listed =>
        /\ Len(listed.result) = Cardinality(ReturnedNames)
        /\ ReturnedNames =
               IF listed.show_hidden THEN GivenNames
               ELSE {n \in GivenNames : ~IsHidden(n)}

\* The returned list is ordered by the key (is-file, lowercased name).
OrderedByKey ==
    Listed => \A i, j \in 1..Len(listed.result) :
                  i < j => KeyLeq(Returned[i], Returned[j])

\* C9 as claimed: the hidden filter, the order by key, and with show_hidden
\* every hidden entry comes after every non-hidden directory.
C9_HiddenAfterDirectories ==
    /\ HiddenFiltered
    /\ OrderedByKey
    /\ (Listed /\ listed.show_hidden) =>
           \A i, j \in 1..Len(listed.result) :
               (IsHidden(Returned[i].name) /\ ~IsHidden(Returned[j].name)
                    /\ Returned[j].kind = "dir") => j < i

\* C9 as amended: the hidden filter, the order by key, and with show_hidden
\* every hidden plain file comes after every non-hidden directory.
C9_HiddenFilesAfterDirectories ==
    /\ HiddenFiltered
    /\ OrderedByKey
    /\ (Listed /\ listed.show_hidden) =>
           \A i, j \in 1..Len(listed.result) :
               (IsHidden(Returned[i].name) /\ Returned[i].kind = "file"
                    /\ ~IsHidden(Returned[j].name) /\ Returned[j].kind = "dir") => j < i

\* A listing with show_hidden returned a hidden directory first, then a
\* directory, then a hidden file, although iterdir yielded them otherwise.
C9_Witness ==
    /\ Listed /\ listed.show_hidden
    /\ Len(listed.result) = 3
    /\ IsHidden(Returned[1].name) /\ Returned[1].kind = "dir"
    /\ ~IsHidden(Returned[2].name) /\ Returned[2].kind = "dir"
    /\ IsHidden(Returned[3].name) /\ Returned[3].kind = "file"
    /\ dir_in.entries[1] = Returned[3]

(***************************************************************************)
(* Properties of copy_file and move_file, stated on the last call.         *)
(***************************************************************************)
IsFileOp == last.op \in {"copy_file", "move_file"}

\* The call was made on a missing source, or on an existing destination
\* without overwrite.
Rejected ==
    \/ ~Exists(last.pre, last.src)
    \/ Exists(last.pre, last.dst) /\ ~last.overwrite

\* C10: copy_file and move_file never raise; called on a missing source, or
\* on an existing destination without overwrite, they return False and
\* leave the file system as it was, destination parent included.
C10_NeverRaisesAndRejectedCallChangesNothing ==
    IsFileOp =>
        /\ last.exc = "none"
        /\ Rejected => (last.ret = FALSE /\ fs = last.pre)


(***************************************************************************)
(* Properties of search_text, stated on the last call.                     *)
(***************************************************************************)
\* search_text was called and returned.
Searched == found.done /\ found.exc = "none"

\* The files search_text reads: the plain files under the root whose name
\* matches include and, when an exclude is given, does not match it, and
\* that can be opened.  The include '**' stands for directories, and so for
\* no file.
IsSearchedFile(item) ==
    /\ item.kind = "file"
    /\ item.readable
    /\ found.include # <<"*", "*">> /\ fnmatch(item.name, found.include)
    /\ found.exclude = <<>> \/ ~fnmatch(item.name, found.exclude)

SearchedFiles ==
    IF search_in.kind = "dir"
    THEN {search_in.items[i] : i \in 1..Len(search_in.items)} \cap {item \in SubjectFiles \cup OtherItems : IsSearchedFile(item)}
    ELSE {}

\* The lines of a file as text mode reads them.
LinesOf(item) == ReadLines(TranslateNewlines(Decode(item.data)))

Fold(str) == [i \in 1..Len(str) |-> FoldChar(str[i])]

\* The line contains the pattern: as a piece of text whatever the case, or,
\* when the pattern is a regular expression with ".", as a match of it.
LineContains(line, pattern) ==
    IF \E i \in 1..Len(pattern) : pattern[i] = "." /\ ~CompileFails(pattern)
    THEN RegexSearch(Compile(pattern), line)
    ELSE \E i \in 1..(Len(line) - Len(pattern) + 1) :
             SubSeq(Fold(line), i, i + Len(pattern) - 1) = Fold(pattern)

\* The places in the result of the matches of one line.
MatchesOf(item, n) ==
    {k \in 1..Len(found.result) : found.result[k].file = item.name /\ found.result[k].line = n}

\* The line numbers returned for one file, in the order returned.
LineNumbersOf(name) ==
    LET ofFile(m) == m.file = name
        ms == SelectSeq(found.result, ofFile)
    IN  [k \in 1..Len(ms) |-> ms[k].line]

NeedleExample ==
    <<"x", "\n", "n", "e", "e", "d", "l", "e", "\n", "x", "\n", "x", "\n", "n", "e", "e", "d", "l", "e">>

\* C11: search_text returns exactly one match for every line of a searched
\* file that contains the pattern and none for any other line; a match
\* carries the 1-based number of its line and the line itself; within one
\* file line numbers increase; and for the 5-line file with "needle" on
\* lines 2 and 5 the pattern "needle" returns the line numbers 2 and 5.
C11_OneMatchPerContainingLine ==
    Searched =>
        /\ \A item \in SearchedFiles : \A n \in 1..Len(LinesOf(item)) :
               Cardinality(MatchesOf(item, n)) =
                   IF LineContains(LinesOf(item)[n], found.pattern) THEN 1 ELSE 0
        /\ \A k \in 1..Len(found.result) : \E item \in SearchedFiles :
               /\ found.result[k].file = item.name
               /\ found.result[k].line \in 1..Len(LinesOf(item))
               /\ found.result[k].content = LinesOf(item)[found.result[k].line]
        /\ \A j, k \in 1..Len(found.result) :
               (j < k /\ found.result[j].file = found.result[k].file)
                   => found.result[j].line < found.result[k].line
        /\ \A item \in SearchedFiles :
               (item.data = NeedleExample /\ found.pattern = <<"n", "e", "e", "d", "l", "e">>)
                   => LineNumbersOf(item.name) = <<2, 5>>

\* The 5-line file with "needle" on lines 2 and 5 was searched for "needle"
\* beside a file with "Needle" on its only line, and three matches came
\* back: line 1 of the one, lines 2 and 5 of the other.
C11_Witness ==
    /\ Searched
    /\ found.pattern = <<"n", "e", "e", "d", "l", "e">>
    /\ Len(search_in.items) = 2
    /\ search_in.items[2].data = NeedleExample
    /\ Len(found.result) = 3
    /\ found.result[1].line = 1
    /\ found.result[2].line = 2 /\ found.result[2].file = search_in.items[2].name
    /\ found.result[3].line = 5 /\ found.result[3].file = search_in.items[2].name
    /\ found.result[3].content = <<"n", "e", "e", "d", "l", "e">>


(***************************************************************************)
(* Properties of find, stated on the last call.                            *)
(***************************************************************************)
FindDone == find_out.done

\* The root does not exist: nothing is there, or its name is longer than
\* the system allows.
RootMissing == find_in.kind \in {"none", "toolong"}

FindItemsUnderRoot == {find_in.items[i] : i \in 1..Len(find_in.items)}

PassesNameAndType(item) ==
    NameKeeps(item, find_out.name) /\ TypeKeeps(item, find_out.file_type)

\* The byte size of the item satisfies the filter parsed from the size
\* argument; no size argument is no filter.
SatisfiesSizeFilter(item) ==
    find_out.size # <<>> =>
        LET parsed == _parse_size_filter(find_out.size)
        IN  _matches_size(item.size, parsed.op, parsed.threshold)

IsReturned(item) == \E k \in 1..Len(find_out.result) : find_out.result[k].name = item.name

\* A plain file that passes the name and type filters is returned iff its
\* size satisfies the parsed filter.
PlainFilesFilteredBySize ==
    (FindDone /\ find_out.exc = "none") =>
        \A item \in FindItemsUnderRoot :
            (item.kind = "file" /\ PassesNameAndType(item))
                => (IsReturned(item) <=> SatisfiesSizeFilter(item))

\* A directory or link that passes the name and type filters is returned
\* whatever the size filter.
DirsAndLinksPassSizeFilter ==
    (FindDone /\ find_out.exc = "none") =>
        \A item \in FindItemsUnderRoot :
            (item.kind \in {"dir", "link"} /\ PassesNameAndType(item)) => IsReturned(item)

\* On a root that does not exist find returns the empty sequence.
MissingRootGivesNothing ==
    (FindDone /\ RootMissing) => (find_out.exc = "none" /\ find_out.result = <<>>)

\* C12: in find the size filter is applied only to plain files: a plain
\* file passing the name and type filters is returned iff its size satisfies
\* the parsed filter, directories and links are never excluded by the size
\* filter, and a root that does not exist gives the empty sequence.
C12_SizeFilterOnlyOnPlainFiles ==
    /\ PlainFilesFilteredBySize
    /\ DirsAndLinksPassSizeFilter
    /\ MissingRootGivesNothing

=========================================================================
